---------------------------- MODULE Spec2Model ----------------------------
(***************************************************************************)
(* Model of fence's token-issuance and client-trust subsystem:             *)
(*   - RedirectMixin (fence/blueprints/login/redirect.py)                  *)
(*   - Client (fence/models.py)                                            *)
(*   - generate_token (fence/oidc/jwt_generator.py)                        *)
(*                                                                         *)
(* Python strings are sequences of atoms.  An atom is either a one         *)
(* character delimiter ("/", ":", " ", ",") or a word that holds no        *)
(* delimiter; no two words are adjacent in any string the model builds.    *)
(***************************************************************************)
EXTENDS Integers, Sequences, FiniteSets, TLC

VARIABLES
    config,       \* flask.current_app.config (the objects it holds are mutable)
    operatorCfg,  \* the whitelist as the operator wrote it (never assigned again)
    clientTable,  \* the client table: client id -> row
    login,        \* the last login request: url, cached allowed set, outcome
    reqCount,     \* number of login requests served
    client,       \* a Client row: is_confidential, _allowed_scopes
    call,         \* the last Client method called on it, with its result
    users,        \* ids of the User rows in storage
    codes,        \* AuthorizationCode rows by code value
    redeemed,     \* per code value: token responses given to grants that
                  \* presented it while its row was stored
    user_refresh_tokens, \* UserRefreshToken rows by jti
    grant,        \* the generate_token call in progress: phase, arguments,
                  \* tokens the signer minted for it, return value or exception
    workers       \* concurrent authorization_code grants: one record per worker

redirectVars == <<config, operatorCfg, clientTable, login, reqCount>>
clientVars == <<client, call>>
grantVars == <<users, codes, redeemed, user_refresh_tokens, grant, workers>>

-----------------------------------------------------------------------------
(* Bounds *)

MaxClients == 1
MaxRequests == 2
MaxRedeem == 2

ClientIds == 1..MaxClients

-----------------------------------------------------------------------------
(* Strings *)

Slash == "/"

\* A strip that drops one trailing "/" and no more.
RstripOne(s) ==
    IF s # <<>> /\ s[Len(s)] = Slash THEN SubSeq(s, 1, Len(s) - 1) ELSE s

\* str.rstrip("/"): drops every trailing "/".
RECURSIVE Rstrip(_)
Rstrip(s) ==
    IF s = <<>> THEN s
    ELSE IF s[Len(s)] = Slash THEN Rstrip(SubSeq(s, 1, Len(s) - 1))
    ELSE s

\* The elements of a list, as a set.
Range(s) == {s[i] : i \in DOMAIN s}

\* t occurs in s as a contiguous run of atoms.
IsSubstring(t, s) ==
    \E i \in 1..(Len(s) - Len(t) + 1) : SubSeq(s, i, i + Len(t) - 1) = t

\* Index of the first "/" of s at or after position i, or Len(s) + 1.
RECURSIVE NextSlash(_, _)
NextSlash(s, i) ==
    IF i > Len(s) THEN Len(s) + 1
    ELSE IF s[i] = Slash THEN i
    ELSE NextSlash(s, i + 1)

\* urlparse(url).scheme and .netloc, for a URL of the form scheme://netloc...
UrlScheme(url) ==
    IF Len(url) >= 2 /\ url[2] = ":" THEN <<url[1]>> ELSE <<>>

UrlNetloc(url) ==
    LET rest == IF UrlScheme(url) = <<>> THEN url ELSE SubSeq(url, 3, Len(url))
    IN IF Len(rest) >= 2 /\ rest[1] = Slash /\ rest[2] = Slash
       THEN SubSeq(rest, 3, NextSlash(rest, 3) - 1)
       ELSE <<>>

\* "{}://{}".format(base_url.scheme, base_url.netloc)
Origin(url) == UrlScheme(url) \o <<":", "/", "/">> \o UrlNetloc(url)

-----------------------------------------------------------------------------
(* URLs of the model *)

Https(host) == <<"https", ":", "/", "/", host>>

BaseUrl == Https("fence.org") \o <<"/", "user">>
Good == Https("good.com")
GoodSlash == Good \o <<"/">>
GoodSlashSlash == Good \o <<"/", "/">>
GoodPath == Good \o <<"/", "cb">>
App == Https("app.org") \o <<"/", "cb", "/">>
Partner == Https("partner.org") \o <<"/">>
Evil == Https("evil-site.net")
EvilGood == Evil \o <<"/">> \o Good

\* flask.url_for("login.fencelogin")
FenceLoginPath == <<"/", "login", "/", "fence">>

\* The redirect URI lists a client is registered or edited with.
UriLists == {<<Good>>, <<App, GoodSlash>>}

\* The ?redirect= values a login request carries.
LoginUrls ==
    {Good, GoodSlash, GoodSlashSlash, GoodPath, App, Partner, Evil, EvilGood,
     BaseUrl, Origin(BaseUrl), Rstrip(BaseUrl) \o FenceLoginPath}

-----------------------------------------------------------------------------
(* More string helpers *)

RECURSIVE IndexOf(_, _, _)
\* Index of the first atom d of s at or after position i, or 0.
IndexOf(s, d, i) ==
    IF i > Len(s) THEN 0
    ELSE IF s[i] = d THEN i
    ELSE IndexOf(s, d, i + 1)

\* str.split(d): the fields between the delimiters; "" splits to [""].
RECURSIVE Split(_, _)
Split(s, d) ==
    LET i == IndexOf(s, d, 1)
    IN IF i = 0 THEN <<s>>
       ELSE <<SubSeq(s, 1, i - 1)>> \o Split(SubSeq(s, i + 1, Len(s)), d)

\* d.join(list)
RECURSIVE Join(_, _)
Join(list, d) ==
    IF list = <<>> THEN <<>>
    ELSE IF Len(list) = 1 THEN list[1]
    ELSE list[1] \o <<d>> \o Join(Tail(list), d)

\* The non-empty elements of a list, in order.
RECURSIVE NonEmpty(_)
NonEmpty(list) ==
    IF list = <<>> THEN <<>>
    ELSE IF list[1] = <<>> THEN NonEmpty(Tail(list))
    ELSE <<list[1]>> \o NonEmpty(Tail(list))

-----------------------------------------------------------------------------
(* Client rows, as far as the redirect validator reads them *)

NoRow == [registered |-> FALSE, redirect_uri |-> <<>>]

\* Client.__init__: redirect_uris given as a list is stored newline-joined.
NewClientRow(redirect_uris) ==
    [registered |-> TRUE, redirect_uri |-> Join(redirect_uris, "\n")]

\* client.redirect_uris: the stored text split back into the list.
RedirectUris(row) == NonEmpty(Split(row.redirect_uri, "\n"))

\* session.query(Client).all() followed by allowed.extend(client.redirect_uris)
\* for each client, starting at client id c.
RECURSIVE ClientUrisFrom(_, _)
ClientUrisFrom(table, c) ==
    IF c \notin DOMAIN table THEN <<>>
    ELSE (IF table[c].registered THEN RedirectUris(table[c]) ELSE <<>>)
         \o ClientUrisFrom(table, c + 1)

-----------------------------------------------------------------------------
(* RedirectMixin *)

\* The list ``allowed`` as allowed_login_redirects has built it before its
\* return statement.
AllowedList(cfg, table) ==
    LET start == IF cfg.hasWhitelist THEN cfg.LOGIN_REDIRECT_WHITELIST ELSE <<>>
        own == <<cfg.BASE_URL, Origin(cfg.BASE_URL)>>
        callback == IF "fence" \in cfg.OPENID_CONNECT
                    THEN <<Rstrip(cfg.BASE_URL) \o FenceLoginPath>>
                    ELSE <<>>
    IN start \o own \o callback \o ClientUrisFrom(table, 1)

\* allowed_login_redirects: the value the property returns.
AllowedLoginRedirects(cfg, table) ==
    {Rstrip(url) : url \in Range(AllowedList(cfg, table))}

\* config after allowed_login_redirects ran: config.get hands out the configured
\* list object itself, so the appends land in the configuration; the default []
\* of an absent key is a fresh list.
ConfigAfterAllowed(cfg, table) ==
    IF cfg.hasWhitelist
    THEN [cfg EXCEPT !.LOGIN_REDIRECT_WHITELIST = AllowedList(cfg, table)]
    ELSE cfg

\* validate_redirect accepting any URL that contains an allowed URL.
ValidateRedirect_contains(url, allowed) ==
    \E member \in allowed : IsSubstring(member, Rstrip(url))

\* validate_redirect: TRUE when it returns, FALSE when it raises UserError.
ValidateRedirect(url, allowed) == Rstrip(url) \in allowed

NoLogin ==
    [url |-> <<>>, allowed |-> {}, outcome |-> "none",
     clients |-> [c \in ClientIds |-> NoRow]]

\* One login request: a fresh resource instance (nothing cached), one call of
\* validate_redirect(url).
LoginRequest(url) ==
    /\ reqCount < MaxRequests
    /\ LET allowed == AllowedLoginRedirects(config, clientTable)
       IN /\ login' = [url |-> url,
                       allowed |-> allowed,
                       outcome |-> IF ValidateRedirect(url, allowed)
                                   THEN "ok" ELSE "UserError",
                       clients |-> clientTable]
          /\ config' = ConfigAfterAllowed(config, clientTable)
    /\ reqCount' = reqCount + 1
    /\ UNCHANGED <<operatorCfg, clientTable, clientVars, grantVars>>

RegisterClient(c, uris) ==
    /\ ~clientTable[c].registered
    /\ clientTable' = [clientTable EXCEPT ![c] = NewClientRow(uris)]
    /\ UNCHANGED <<config, operatorCfg, login, reqCount, clientVars, grantVars>>

EditClient(c, uris) ==
    /\ clientTable[c].registered
    /\ clientTable[c] # NewClientRow(uris)
    /\ clientTable' = [clientTable EXCEPT ![c] = NewClientRow(uris)]
    /\ UNCHANGED <<config, operatorCfg, login, reqCount, clientVars, grantVars>>

DeleteClient(c) ==
    /\ clientTable[c].registered
    /\ clientTable' = [clientTable EXCEPT ![c] = NoRow]
    /\ UNCHANGED <<config, operatorCfg, login, reqCount, clientVars, grantVars>>

-----------------------------------------------------------------------------
(* Python's True, False and None, and its ``and``, ``or``, ``not`` on them *)

PyValues == {"True", "False", "None"}

Truthy(v) == v = "True"
PyBool(b) == IF b THEN "True" ELSE "False"
PyAnd(a, b) == IF Truthy(a) THEN b ELSE a
PyOr(a, b) == IF Truthy(a) THEN a ELSE b
PyNot(a) == PyBool(~Truthy(a))

-----------------------------------------------------------------------------
(* Client *)

Word(w) == <<w>>

\* Client._scopes
_scopes == <<Word("compute"), Word("storage"), Word("user")>>

\* Client.allowed_scopes
allowed_scopes(c) == Split(c._allowed_scopes, " ")

\* Client.client_type testing ``not self.is_confidential``.
client_type_falsy(c) ==
    IF ~Truthy(c.is_confidential) THEN "public" ELSE "confidential"

\* Client.client_type
client_type(c) ==
    IF c.is_confidential = "False" THEN "public" ELSE "confidential"

\* Client.check_client_type
check_client_type(c, t) ==
    PyOr(PyAnd(PyBool(t = "confidential"), c.is_confidential),
         PyAnd(PyBool(t = "public"), PyNot(c.is_confidential)))

\* Client.check_requested_scopes
check_requested_scopes(c, scopes) ==
    PyBool(Range(scopes) \subseteq Range(allowed_scopes(c)))

auth_methods == {"client_secret_basic", "client_secret_post"}

\* Client.check_token_endpoint_auth_method
check_token_endpoint_auth_method(c, method) ==
    PyOr(PyAnd(c.is_confidential, PyBool(method \in auth_methods)),
         PyAnd(PyNot(c.is_confidential), PyBool(method = "none")))

\* Client.validate_scopes against the client's own allowed scopes.
validate_scopes_allowed(c, scopes) ==
    LET requested == Split(scopes[1], ",")
    IN PyBool(\A i \in DOMAIN requested : requested[i] \in Range(allowed_scopes(c)))

\* Client.validate_scopes
validate_scopes(c, scopes) ==
    LET requested == Split(scopes[1], ",")
    IN PyBool(\A i \in DOMAIN requested : requested[i] \in Range(_scopes))

\* _allowed_scopes values: "", "user", "openid", "openid user", "compute storage"
AllowedScopeTexts ==
    {<<>>, <<"user">>, <<"openid">>, <<"openid", " ", "user">>,
     <<"compute", " ", "storage">>}

\* Comma-delimited scope texts a caller sends.
RequestedScopeTexts ==
    {<<>>, <<"user">>, <<"openid">>, <<"data">>, <<"compute", ",", "user">>,
     <<"openid", ",", "user">>, <<"compute", ",", "storage", ",", "user">>,
     <<"user", ",">>}

\* Scope lists handed to check_requested_scopes.
RequestedScopeLists ==
    {<<>>, <<Word("user")>>, <<Word("openid"), Word("user")>>, <<Word("compute")>>}

Methods == {"client_secret_basic", "client_secret_post", "none", "private_key_jwt"}
ClientTypes == {"confidential", "public", "other"}

NoCall == [op |-> "none", method |-> "", scopes |-> <<>>, result |-> "None"]

Call_client_type ==
    /\ call' = [NoCall EXCEPT !.op = "client_type", !.result = client_type(client)]
    /\ UNCHANGED <<client, redirectVars, grantVars>>

Call_check_client_type(t) ==
    /\ call' = [NoCall EXCEPT !.op = "check_client_type", !.method = t,
                              !.result = check_client_type(client, t)]
    /\ UNCHANGED <<client, redirectVars, grantVars>>

Call_check_token_endpoint_auth_method(method) ==
    /\ call' = [NoCall EXCEPT !.op = "check_token_endpoint_auth_method",
                              !.method = method,
                              !.result = check_token_endpoint_auth_method(client, method)]
    /\ UNCHANGED <<client, redirectVars, grantVars>>

Call_validate_scopes(text) ==
    /\ call' = [NoCall EXCEPT !.op = "validate_scopes", !.scopes = <<text>>,
                              !.result = validate_scopes(client, <<text>>)]
    /\ UNCHANGED <<client, redirectVars, grantVars>>

Call_check_requested_scopes(scopes) ==
    /\ call' = [NoCall EXCEPT !.op = "check_requested_scopes", !.scopes = scopes,
                              !.result = check_requested_scopes(client, scopes)]
    /\ UNCHANGED <<client, redirectVars, grantVars>>

ClientIdle ==
    /\ client = [is_confidential |-> "True", _allowed_scopes |-> <<>>]
    /\ call = NoCall

RedirectIdle ==
    /\ config = [hasWhitelist |-> FALSE, LOGIN_REDIRECT_WHITELIST |-> <<>>,
                 BASE_URL |-> BaseUrl, OPENID_CONNECT |-> {"google"}]
    /\ operatorCfg = config
    /\ clientTable = [c \in ClientIds |-> NoRow]
    /\ login = NoLogin
    /\ reqCount = 0

-----------------------------------------------------------------------------
(* Storage and arguments of generate_token *)

UserIds == {1, 2}
Workers == {1, 2}
CodeValues == {"code1"}

\* fence.settings
ACCESS_TOKEN_EXPIRES_IN == 1200
REFRESH_TOKEN_EXPIRES_IN == 2592000

\* A ``user`` argument: None, a User instance bound to current_session, or a
\* User instance that is not in current_session.
UserNone == [kind |-> "None", id |-> 0]
AttachedUser(u) == [kind |-> "attached", id |-> u]
DetachedUser(u) == [kind |-> "detached", id |-> u]
UserArgs ==
    {UserNone} \cup {AttachedUser(u) : u \in UserIds}
               \cup {DetachedUser(u) : u \in UserIds}

\* An AuthorizationCode row: not yet issued, stored for a user, or deleted
\* with its user.
NoCode == [state |-> "unissued", user |-> 0]

\* Tokens, by their claims.  jti tells the caller's earlier refresh token from
\* one the signer mints in this call.
NoToken == [kind |-> "None", sub |-> 0, scopes |-> <<>>, expires_in |-> 0, jti |-> ""]
PrevRefreshToken ==
    [kind |-> "refresh", sub |-> 1, scopes |-> <<Word("openid")>>,
     expires_in |-> REFRESH_TOKEN_EXPIRES_IN, jti |-> "prev"]

\* generate_signed_id_token / _access_token / _refresh_token
Sign(kind, user, expires_in, scopes) ==
    [kind |-> kind, sub |-> user.id, scopes |-> scopes,
     expires_in |-> expires_in, jti |-> "new"]

\* A ``scope`` argument: None, a list of scopes, or a space-delimited string.
ScopeNone == [kind |-> "None", val |-> <<>>]
ScopeList(list) == [kind |-> "list", val |-> list]
ScopeStr(text) == [kind |-> "str", val |-> text]
ScopeArgs ==
    {ScopeNone,
     ScopeList(<<Word("openid")>>),
     ScopeList(<<Word("openid"), Word("user")>>),
     ScopeStr(<<"openid">>),
     ScopeStr(<<"openid", " ", "user">>)}

\* The jti of every refresh token issued before the run; each has a
\* UserRefreshToken row that is valid, expired, or absent once revoked.
RefreshJtis == {PrevRefreshToken.jti}

\* refresh_token_claims: None or a dict with "sub"
NoClaims == [present |-> FALSE, sub |-> <<>>]
Claims(sub) == [present |-> TRUE, sub |-> sub]

Digits == <<"0", "1", "2", "3", "4", "5", "6", "7", "8", "9">>
DigitValue(d) == CHOOSE i \in 0..9 : Digits[i + 1] = d

\* int(text) for a text of decimal digits
RECURSIVE IntOf(_)
IntOf(text) ==
    IF text = <<>> THEN 0
    ELSE 10 * IntOf(SubSeq(text, 1, Len(text) - 1)) + DigitValue(text[Len(text)])

Request(gt, user, code, scope, irt, rt, claims, iat, expires_in) ==
    [grant_type |-> gt, user |-> user, code |-> code, scope |-> scope,
     include_refresh_token |-> irt,
     refresh_token |-> rt,
     refresh_token_claims |-> claims,
     include_access_token |-> iat,
     expires_in |-> expires_in]

NoRequest ==
    Request("None", UserNone, "None", ScopeNone, TRUE, NoToken, NoClaims, TRUE, <<>>)

\* Code values a request carries in its query string or form: none, the
\* issued one, one that was never issued.
CodeArgs == {"None", "code1", "bogus"}
ExpiresArgs == {<<>>, <<60>>}

CodeRequests ==
    {Request("authorization_code", u, c, sc, irt, rt, NoClaims, TRUE, e) :
        u \in UserArgs, c \in CodeArgs, sc \in ScopeArgs, irt \in BOOLEAN,
        rt \in {NoToken, PrevRefreshToken}, e \in ExpiresArgs}

RefreshRequests ==
    {Request("refresh_token", u, "None", sc, irt, rt, cl, TRUE, <<>>) :
        u \in UserArgs, sc \in ScopeArgs, irt \in BOOLEAN,
        rt \in {NoToken, PrevRefreshToken},
        cl \in {NoClaims, Claims(<<"1">>), Claims(<<"2">>)}}

ImplicitRequests ==
    {Request("implicit", u, "None", sc, TRUE, NoToken, NoClaims, iat, e) :
        u \in UserArgs, sc \in ScopeArgs, iat \in BOOLEAN, e \in ExpiresArgs}

OtherRequests ==
    {Request("client_credentials", UserNone, "None", ScopeList(<<Word("openid")>>),
             FALSE, NoToken, NoClaims, TRUE, <<>>)}

Requests == CodeRequests \cup RefreshRequests \cup ImplicitRequests \cup OtherRequests

-----------------------------------------------------------------------------
(* Return values and exceptions *)

NoResponse ==
    [kind |-> "none", error |-> "", message |-> "", keys |-> {},
     token_type |-> "", id_token |-> NoToken, access_token |-> NoToken,
     refresh_token |-> NoToken, expires_in |-> 0]

\* The call returned None.
ReturnedNone == [NoResponse EXCEPT !.kind = "None"]

Raise(error, message) ==
    [NoResponse EXCEPT !.kind = "error", !.error = error, !.message = message]

Outcome(response, minted) == [response |-> response, minted |-> minted]

-----------------------------------------------------------------------------
(* generate_token *)

\* current_session.query(User).filter_by(id=id).first()
QueryUser(stored, id) == IF id \in stored THEN AttachedUser(id) ELSE UserNone

\* Lines "if user not in current_session: user = ...first()": Session.__contains__
\* raises for an object that is no mapped instance, None included.
Rebind(stored, user) ==
    IF user.kind = "None"
    THEN [error |-> "UnmappedInstanceError", user |-> user]
    ELSE IF user.kind = "attached"
    THEN [error |-> "", user |-> user]
    ELSE [error |-> "", user |-> QueryUser(stored, user.id)]

\* current_session.query(AuthorizationCode).filter_by(code=code).first().user
CodeUser(stored, rows, code) ==
    IF code \in DOMAIN rows /\ rows[code].state = "stored"
    THEN [error |-> "", user |-> QueryUser(stored, rows[code].user)]
    ELSE [error |-> "AttributeError", user |-> UserNone]

\* generate_token_response up to ``keypair = ...``: the User the tokens are
\* for, by lookup when no usable ``user`` was passed.
ResolveUser(stored, rows, req) ==
    LET bound == Rebind(stored, req.user)
    IN IF bound.error # "" THEN bound
       ELSE IF bound.user.kind # "None" THEN bound
       ELSE IF req.grant_type = "authorization_code"
       THEN CodeUser(stored, rows, req.code)
       ELSE IF req.grant_type = "refresh_token"
       THEN IF req.refresh_token_claims.present
            THEN [error |-> "",
                  user |-> QueryUser(stored, IntOf(req.refresh_token_claims.sub))]
            ELSE [error |-> "TypeError", user |-> UserNone]
       ELSE bound

\* ``if not isinstance(scope, list): scope = scope.split(" ")``
ScopeAsList(scope) ==
    IF scope.kind = "list" THEN scope.val ELSE Split(scope.val, " ")

\* generate_token_response from ``keypair = ...`` on, minting a refresh token
\* whether or not one was passed.
MintTokenResponse_rotate(req, user) ==
    IF user.kind = "None" \/ req.scope.kind = "None"
    THEN Outcome(Raise("AttributeError", ""), <<>>)
    ELSE LET scope == ScopeAsList(req.scope)
             id_token == Sign("id", user, ACCESS_TOKEN_EXPIRES_IN, scope)
             access_token == Sign("access", user, ACCESS_TOKEN_EXPIRES_IN, scope)
             fresh == Sign("refresh", user, REFRESH_TOKEN_EXPIRES_IN, scope)
         IN Outcome(
                [NoResponse EXCEPT
                    !.kind = "token",
                    !.keys = {"token_type", "id_token", "access_token",
                              "refresh_token", "expires_in"},
                    !.token_type = "Bearer",
                    !.id_token = id_token,
                    !.access_token = access_token,
                    !.refresh_token = fresh,
                    !.expires_in = ACCESS_TOKEN_EXPIRES_IN],
                <<id_token, access_token, fresh>>)

\* generate_token_response from ``keypair = ...`` on, honouring
\* include_refresh_token.
MintTokenResponse_optional(req, user) ==
    IF user.kind = "None" \/ req.scope.kind = "None"
    THEN Outcome(Raise("AttributeError", ""), <<>>)
    ELSE LET scope == ScopeAsList(req.scope)
             id_token == Sign("id", user, ACCESS_TOKEN_EXPIRES_IN, scope)
             access_token == Sign("access", user, ACCESS_TOKEN_EXPIRES_IN, scope)
             fresh == Sign("refresh", user, REFRESH_TOKEN_EXPIRES_IN, scope)
             mint == req.refresh_token = NoToken /\ req.include_refresh_token
         IN Outcome(
                [NoResponse EXCEPT
                    !.kind = "token",
                    !.keys = {"token_type", "id_token", "access_token", "expires_in"}
                             \cup (IF req.include_refresh_token
                                   THEN {"refresh_token"} ELSE {}),
                    !.token_type = "Bearer",
                    !.id_token = id_token,
                    !.access_token = access_token,
                    !.refresh_token = IF mint THEN fresh
                                      ELSE IF req.include_refresh_token
                                      THEN req.refresh_token ELSE NoToken,
                    !.expires_in = ACCESS_TOKEN_EXPIRES_IN],
                <<id_token, access_token>> \o (IF mint THEN <<fresh>> ELSE <<>>))

\* generate_token_response from ``keypair = ...`` on, returning the caller's
\* expires_in when one was passed.
MintTokenResponse_passthrough(req, user) ==
    IF user.kind = "None" \/ req.scope.kind = "None"
    THEN Outcome(Raise("AttributeError", ""), <<>>)
    ELSE LET scope == ScopeAsList(req.scope)
             id_token == Sign("id", user, ACCESS_TOKEN_EXPIRES_IN, scope)
             access_token == Sign("access", user, ACCESS_TOKEN_EXPIRES_IN, scope)
             fresh == Sign("refresh", user, REFRESH_TOKEN_EXPIRES_IN, scope)
             mint == req.refresh_token = NoToken
         IN Outcome(
                [NoResponse EXCEPT
                    !.kind = "token",
                    !.keys = {"token_type", "id_token", "access_token",
                              "refresh_token", "expires_in"},
                    !.token_type = "Bearer",
                    !.id_token = id_token,
                    !.access_token = access_token,
                    !.refresh_token = IF mint THEN fresh ELSE req.refresh_token,
                    !.expires_in = IF req.expires_in = <<>>
                                   THEN ACCESS_TOKEN_EXPIRES_IN
                                   ELSE req.expires_in[1]],
                <<id_token, access_token>> \o (IF mint THEN <<fresh>> ELSE <<>>))

\* generate_token_response from ``keypair = ...`` on: user.id is read, scope is
\* made a list, the three tokens are minted or the passed refresh token kept.
MintTokenResponse(req, user) ==
    IF user.kind = "None" \/ req.scope.kind = "None"
    THEN Outcome(Raise("AttributeError", ""), <<>>)
    ELSE LET scope == ScopeAsList(req.scope)
             id_token == Sign("id", user, ACCESS_TOKEN_EXPIRES_IN, scope)
             access_token == Sign("access", user, ACCESS_TOKEN_EXPIRES_IN, scope)
             fresh == Sign("refresh", user, REFRESH_TOKEN_EXPIRES_IN, scope)
             mint == req.refresh_token = NoToken
         IN Outcome(
                [NoResponse EXCEPT
                    !.kind = "token",
                    !.keys = {"token_type", "id_token", "access_token",
                              "refresh_token", "expires_in"},
                    !.token_type = "Bearer",
                    !.id_token = id_token,
                    !.access_token = access_token,
                    !.refresh_token = IF mint THEN fresh ELSE req.refresh_token,
                    !.expires_in = ACCESS_TOKEN_EXPIRES_IN],
                <<id_token, access_token>> \o (IF mint THEN <<fresh>> ELSE <<>>))

\* generate_token_response
generate_token_response(stored, rows, req) ==
    LET found == ResolveUser(stored, rows, req)
    IN IF found.error # "" THEN Outcome(Raise(found.error, ""), <<>>)
       ELSE MintTokenResponse(req, found.user)

\* generate_implicit_response with the access token minted and returned
\* whatever include_access_token says.
generate_implicit_response_always(stored, req) ==
    LET bound == Rebind(stored, req.user)
    IN IF bound.error # "" THEN Outcome(Raise(bound.error, ""), <<>>)
       ELSE IF bound.user.kind = "None"
       THEN Outcome(Raise("OIDCError", "user not authenticated"), <<>>)
       ELSE IF req.scope.kind = "None"
       THEN Outcome(Raise("AttributeError", ""), <<>>)
       ELSE LET listed == ScopeAsList(req.scope)
                scope == IF Word("user") \in Range(listed) THEN listed
                         ELSE Append(listed, Word("user"))
                id_token == Sign("id", bound.user, ACCESS_TOKEN_EXPIRES_IN, scope)
                access_token ==
                    Sign("access", bound.user, ACCESS_TOKEN_EXPIRES_IN, scope)
            IN Outcome([NoResponse EXCEPT
                            !.kind = "token",
                            !.keys = {"token_type", "id_token", "expires_in",
                                      "access_token"},
                            !.token_type = "Bearer",
                            !.id_token = id_token,
                            !.access_token = access_token,
                            !.expires_in = ACCESS_TOKEN_EXPIRES_IN],
                       <<id_token, access_token>>)

\* generate_implicit_response
generate_implicit_response(stored, req) ==
    LET bound == Rebind(stored, req.user)
    IN IF bound.error # "" THEN Outcome(Raise(bound.error, ""), <<>>)
       ELSE IF bound.user.kind = "None"
       THEN Outcome(Raise("OIDCError", "user not authenticated"), <<>>)
       ELSE IF req.scope.kind = "None"
       THEN Outcome(Raise("AttributeError", ""), <<>>)
       ELSE LET listed == ScopeAsList(req.scope)
                scope == IF Word("user") \in Range(listed) THEN listed
                         ELSE Append(listed, Word("user"))
                id_token == Sign("id", bound.user, ACCESS_TOKEN_EXPIRES_IN, scope)
                access_token ==
                    Sign("access", bound.user, ACCESS_TOKEN_EXPIRES_IN, scope)
                base == [NoResponse EXCEPT
                            !.kind = "token",
                            !.keys = {"token_type", "id_token", "expires_in"},
                            !.token_type = "Bearer",
                            !.id_token = id_token,
                            !.expires_in = ACCESS_TOKEN_EXPIRES_IN]
            IN IF req.include_access_token
               THEN Outcome([base EXCEPT !.keys = @ \cup {"access_token"},
                                         !.access_token = access_token],
                            <<id_token, access_token>>)
               ELSE Outcome(base, <<id_token>>)

\* generate_token
generate_token(stored, rows, req) ==
    IF req.grant_type \in {"authorization_code", "refresh_token"}
    THEN generate_token_response(stored, rows, req)
    ELSE IF req.grant_type = "implicit"
    THEN generate_implicit_response(stored, req)
    ELSE Outcome(ReturnedNone, <<>>)

-----------------------------------------------------------------------------
(* One generate_token call at a time (SpecGrant) *)

Idle == [phase |-> "idle", request |-> NoRequest, minted |-> <<>>,
         response |-> NoResponse]

NoWorker == [pc |-> "idle", request |-> NoRequest, found |-> UserNone,
             by_code |-> FALSE, minted |-> <<>>, response |-> NoResponse]

\* The grant presents a code value that consent hands out.
PresentsCode(req) ==
    req.grant_type = "authorization_code" /\ req.code \in CodeValues

\* A grant request arrives with its arguments.
Receive(req) ==
    /\ grant.phase = "idle"
    /\ PresentsCode(req) => redeemed[req.code] < MaxRedeem
    /\ grant' = [Idle EXCEPT !.phase = "received", !.request = req]
    /\ UNCHANGED <<users, codes, redeemed, workers, user_refresh_tokens, redirectVars, clientVars>>

\* The call of generate_token, from entry to return or exception.
GenerateToken ==
    /\ grant.phase = "received"
    /\ LET out == generate_token(users, codes, grant.request)
       IN /\ grant' = [grant EXCEPT !.phase = "responded",
                                    !.minted = out.minted,
                                    !.response = out.response]
          /\ redeemed' = IF PresentsCode(grant.request) /\ out.response.kind = "token"
                            /\ codes[grant.request.code].state = "stored"
                         THEN [redeemed EXCEPT ![grant.request.code] = @ + 1]
                         ELSE redeemed
    /\ UNCHANGED <<users, codes, workers, user_refresh_tokens, redirectVars, clientVars>>

\* The response has gone to the caller; the request context is gone.
Return ==
    /\ grant.phase = "responded"
    /\ grant' = Idle
    /\ UNCHANGED <<users, codes, redeemed, workers, user_refresh_tokens, redirectVars, clientVars>>

\* AuthorizationCode(code=..., user=...) is stored at the end of consent.
IssueCode(code, u) ==
    /\ codes[code].state = "unissued"
    /\ u \in users
    /\ codes' = [codes EXCEPT ![code] = [state |-> "stored", user |-> u]]
    /\ UNCHANGED <<users, redeemed, grant, workers, user_refresh_tokens, redirectVars, clientVars>>

\* The expiry time of a UserRefreshToken row passes.
ExpireRefreshToken(jti) ==
    /\ user_refresh_tokens[jti] = "valid"
    /\ user_refresh_tokens' = [user_refresh_tokens EXCEPT ![jti] = "expired"]
    /\ UNCHANGED <<users, codes, redeemed, grant, workers, redirectVars, clientVars>>

\* UserRefreshToken.delete: the token is revoked.
RevokeRefreshToken(jti) ==
    /\ user_refresh_tokens[jti] \in {"valid", "expired"}
    /\ user_refresh_tokens' = [user_refresh_tokens EXCEPT ![jti] = "absent"]
    /\ UNCHANGED <<users, codes, redeemed, grant, workers, redirectVars, clientVars>>

\* A User row is deleted; its authorization codes go with it.
DeleteUser(u) ==
    /\ u \in users
    /\ users' = users \ {u}
    /\ codes' = [c \in CodeValues |->
                    IF codes[c].state = "stored" /\ codes[c].user = u
                    THEN [state |-> "deleted", user |-> u]
                    ELSE codes[c]]
    /\ UNCHANGED <<redeemed, grant, workers, user_refresh_tokens, redirectVars, clientVars>>

GrantIdle ==
    /\ users = UserIds
    /\ codes = [c \in CodeValues |-> NoCode]
    /\ redeemed = [c \in CodeValues |-> 0]
    /\ user_refresh_tokens = [jti \in RefreshJtis |-> "valid"]
    /\ grant = Idle
    /\ workers = [w \in Workers |-> NoWorker]

InitGrant == RedirectIdle /\ ClientIdle /\ GrantIdle

NextGrant ==
    \/ \E req \in Requests : Receive(req)
    \/ GenerateToken
    \/ Return
    \/ \E code \in CodeValues, u \in UserIds : IssueCode(code, u)
    \/ \E u \in UserIds : DeleteUser(u)
    \/ \E jti \in RefreshJtis : ExpireRefreshToken(jti)
    \/ \E jti \in RefreshJtis : RevokeRefreshToken(jti)

-----------------------------------------------------------------------------
(* Concurrent authorization_code grants (SpecConc): each worker runs          *)
(* generate_token_response in its own request and session; the lookup of the *)
(* user and the minting are separate steps that interleave.                  *)

ConcRequests ==
    {Request("authorization_code", u, c, ScopeList(<<Word("openid"), Word("user")>>),
             TRUE, NoToken, NoClaims, TRUE, <<>>) :
        u \in UserArgs, c \in CodeArgs}

\* The user was taken from the AuthorizationCode row of the request's code.
FoundByCode(stored, rows, req) ==
    LET bound == Rebind(stored, req.user)
    IN /\ bound.error = ""
       /\ bound.user.kind = "None"
       /\ req.grant_type = "authorization_code"
       /\ CodeUser(stored, rows, req.code).error = ""

ConcReceive(w, req) ==
    /\ workers[w].pc = "idle"
    /\ workers' = [workers EXCEPT ![w] = [NoWorker EXCEPT !.pc = "received",
                                                          !.request = req]]
    /\ UNCHANGED <<users, codes, redeemed, grant, user_refresh_tokens, redirectVars, clientVars>>

\* generate_token_response up to ``keypair = ...``
ConcResolve(w) ==
    /\ workers[w].pc = "received"
    /\ LET found == ResolveUser(users, codes, workers[w].request)
       IN workers' = [workers EXCEPT ![w] =
             IF found.error # ""
             THEN [@ EXCEPT !.pc = "responded", !.response = Raise(found.error, "")]
             ELSE [@ EXCEPT !.pc = "resolved", !.found = found.user,
                            !.by_code = FoundByCode(users, codes, workers[w].request)]]
    /\ UNCHANGED <<users, codes, redeemed, grant, user_refresh_tokens, redirectVars, clientVars>>

\* generate_token_response from ``keypair = ...`` to its return
ConcMint(w) ==
    /\ workers[w].pc = "resolved"
    /\ LET out == MintTokenResponse(workers[w].request, workers[w].found)
       IN workers' = [workers EXCEPT ![w] = [@ EXCEPT !.pc = "responded",
                                                      !.minted = out.minted,
                                                      !.response = out.response]]
    /\ UNCHANGED <<users, codes, redeemed, grant, user_refresh_tokens, redirectVars, clientVars>>

NextConc ==
    \/ \E w \in Workers, req \in ConcRequests : ConcReceive(w, req)
    \/ \E w \in Workers : ConcResolve(w)
    \/ \E w \in Workers : ConcMint(w)
    \/ \E code \in CodeValues, u \in UserIds : IssueCode(code, u)
    \/ \E u \in UserIds : DeleteUser(u)

-----------------------------------------------------------------------------
(* Specifications *)

InitClient ==
    /\ \E flag \in PyValues, text \in AllowedScopeTexts :
          client = [is_confidential |-> flag, _allowed_scopes |-> text]
    /\ call = NoCall
    /\ RedirectIdle
    /\ GrantIdle

NextClient ==
    \/ Call_client_type
    \/ \E t \in ClientTypes : Call_check_client_type(t)
    \/ \E method \in Methods : Call_check_token_endpoint_auth_method(method)
    \/ \E text \in RequestedScopeTexts : Call_validate_scopes(text)
    \/ \E scopes \in RequestedScopeLists : Call_check_requested_scopes(scopes)

InitRedirect ==
    /\ \E has \in BOOLEAN, oidc \in {{"google"}, {"google", "fence"}} :
          config = [hasWhitelist |-> has,
                    LOGIN_REDIRECT_WHITELIST |-> IF has THEN <<Partner>> ELSE <<>>,
                    BASE_URL |-> BaseUrl,
                    OPENID_CONNECT |-> oidc]
    /\ operatorCfg = config
    /\ clientTable = [c \in ClientIds |-> NoRow]
    /\ login = NoLogin
    /\ reqCount = 0
    /\ ClientIdle
    /\ GrantIdle

NextRedirect ==
    \/ \E url \in LoginUrls : LoginRequest(url)
    \/ \E c \in ClientIds, uris \in UriLists : RegisterClient(c, uris)
    \/ \E c \in ClientIds, uris \in UriLists : EditClient(c, uris)
    \/ \E c \in ClientIds : DeleteClient(c)

vars == <<redirectVars, clientVars, grantVars>>

SpecRedirect == InitRedirect /\ [][NextRedirect]_vars

SpecClient == InitClient /\ [][NextClient]_vars

SpecGrant == InitGrant /\ [][NextGrant]_vars

SpecConc == InitGrant /\ [][NextConc]_vars

-----------------------------------------------------------------------------
(* Claims about the redirect validator (SpecRedirect) *)

\* C1: validate_redirect(U) returns iff U with its trailing slashes stripped is
\* a member of allowed_login_redirects, and raises UserError otherwise; a URL
\* that only contains an allowed URL is rejected; a URL registered on a client
\* is accepted.
C1_ValidateExactMatch ==
    login.outcome # "none" =>
        /\ login.outcome \in {"ok", "UserError"}
        /\ (login.outcome = "ok") <=>
               (\E member \in login.allowed : member = Rstrip(login.url))
        /\ ( /\ Rstrip(login.url) \notin login.allowed
             /\ \E member \in login.allowed : IsSubstring(member, login.url) )
               => login.outcome = "UserError"
        /\ \A c \in ClientIds :
               ( /\ login.clients[c].registered
                 /\ login.url \in Range(RedirectUris(login.clients[c])) )
               => login.outcome = "ok"

\* https://evil-site.net/https://good.com is refused while https://good.com is
\* allowed.
C1_Witness ==
    /\ login.url = EvilGood
    /\ Good \in login.allowed
    /\ login.outcome = "UserError"

\* C2: whatever requests and client changes came before, a request accepts
\* only URLs of the operator's configuration and of the clients registered when
\* the request runs; a URI of a client deleted earlier is rejected.
C2_ReflectsCurrentClients ==
    login.outcome = "ok" =>
        Rstrip(login.url) \in AllowedLoginRedirects(operatorCfg, login.clients)

-----------------------------------------------------------------------------
(* Claims about Client (SpecClient) *)

\* C3: client_type is "public" iff is_confidential is explicitly False; with
\* the flag True or unset it is "confidential".
C3_ClientType ==
    call.op = "client_type" =>
        /\ (call.result = "public") <=> (client.is_confidential = "False")
        /\ client.is_confidential \in {"True", "None"}
               => call.result = "confidential"

\* client_type was read on a client whose flag is unset.
C3_Witness ==
    /\ call.op = "client_type"
    /\ client.is_confidential = "None"
    /\ call.result = "confidential"

\* C4: check_token_endpoint_auth_method(method) is true iff the client is
\* confidential by client_type and method is client_secret_basic or
\* client_secret_post, or the client is public and method is none.
C4_AuthMethodFollowsClientType ==
    call.op = "check_token_endpoint_auth_method" =>
        ( Truthy(call.result) <=>
            \/ /\ client.is_confidential \in {"True", "None"}
               /\ call.method \in {"client_secret_basic", "client_secret_post"}
            \/ /\ client.is_confidential = "False"
               /\ call.method = "none" )

\* The comma-separated scopes of a single-entry scope list.
RequestedOf(scopes) == Range(Split(scopes[1], ","))

-----------------------------------------------------------------------------
(* Claims about generate_token (SpecGrant, SpecConc) *)

\* The refresh tokens the signer minted for the call.
MintedRefresh(minted) == {i \in DOMAIN minted : minted[i].kind = "refresh"}

CodePath(req) == req.grant_type \in {"authorization_code", "refresh_token"}

\* C6: the step of a successful authorization_code grant for a stored code
\* leaves that code deleted or spent, and no stored code value gets a token
\* response twice.
C6_CodeSingleUse ==
    [][ /\ \A code \in CodeValues : redeemed'[code] <= 1
        /\ ( /\ grant.phase = "received"
             /\ grant'.phase = "responded"
             /\ PresentsCode(grant.request)
             /\ codes[grant.request.code].state = "stored"
             /\ grant'.response.kind = "token" )
               => codes'[grant.request.code].state # "stored" ]_vars

\* C7: of two concurrent authorization_code grants that both found the same
\* stored code, exactly one gets a token response and the other an
\* InvalidGrant OIDCError.
C7_ExactlyOneRedeems ==
    ( /\ \A w \in Workers : workers[w].pc = "responded" /\ workers[w].by_code
      /\ workers[1].request.code = workers[2].request.code )
        => \E w \in Workers :
              /\ workers[w].response.kind = "token"
              /\ workers[3 - w].response.kind = "error"
              /\ workers[3 - w].response.error = "OIDCError"

\* C8: every ID token and access token minted for a successful grant has
\* "user" among its scopes.
C8_UserScopeAlways ==
    grant.response.kind = "token" =>
        \A i \in DOMAIN grant.minted :
            grant.minted[i].kind \in {"id", "access"}
                => \E j \in DOMAIN grant.minted[i].scopes :
                      grant.minted[i].scopes[j] = <<"user">>

\* C9: on the authorization_code/refresh_token path a passed refresh_token
\* comes back unchanged and the signer mints no refresh token; one is minted
\* only when none was passed.
C9_RefreshTokenReused ==
    (grant.phase = "responded" /\ CodePath(grant.request)) =>
        /\ (grant.response.kind = "token" /\ grant.request.refresh_token # NoToken)
               => /\ grant.response.refresh_token = grant.request.refresh_token
                  /\ MintedRefresh(grant.minted) = {}
        /\ MintedRefresh(grant.minted) # {}
               => grant.request.refresh_token = NoToken

\* A refresh_token grant that passed its refresh token got it back.
C9_Witness ==
    /\ grant.phase = "responded"
    /\ grant.request.grant_type = "refresh_token"
    /\ grant.request.refresh_token = PrevRefreshToken
    /\ grant.response.kind = "token"
    /\ grant.response.refresh_token = PrevRefreshToken

MintedOfKind(minted, kind) == {i \in DOMAIN minted : minted[i].kind = kind}

\* C11: a successful implicit grant response never has a refresh_token key,
\* always has token_type, id_token and expires_in, and has an access_token
\* key exactly when include_access_token is true; when it is false no access
\* token is minted, and no refresh token is minted either way.
C11_ImplicitResponseShape ==
    ( /\ grant.phase = "responded"
      /\ grant.request.grant_type = "implicit"
      /\ grant.response.kind = "token" )
        => /\ "refresh_token" \notin grant.response.keys
           /\ grant.response.refresh_token = NoToken
           /\ {"token_type", "id_token", "expires_in"} \subseteq grant.response.keys
           /\ grant.response.id_token.kind = "id"
           /\ "access_token" \in grant.response.keys
                 <=> grant.request.include_access_token
           /\ grant.request.include_access_token
                 => grant.response.access_token.kind = "access"
           /\ ~grant.request.include_access_token
                 => /\ MintedOfKind(grant.minted, "access") = {}
                    /\ grant.response.access_token = NoToken
           /\ MintedOfKind(grant.minted, "refresh") = {}

\* An implicit grant with include_access_token false got its ID token alone.
C11_Witness ==
    /\ grant.phase = "responded"
    /\ grant.request.grant_type = "implicit"
    /\ ~grant.request.include_access_token
    /\ grant.response.kind = "token"
    /\ grant.response.keys = {"token_type", "id_token", "expires_in"}
    /\ Len(grant.minted) = 1

\* C12: every successful authorization_code grant returns token_type
\* "Bearer", an ID token, an access token, a refresh token, and expires_in
\* equal to ACCESS_TOKEN_EXPIRES_IN (1200) whatever expires_in was passed.
C12_CodeResponseShape ==
    ( /\ grant.phase = "responded"
      /\ grant.request.grant_type = "authorization_code"
      /\ grant.response.kind = "token" )
        => /\ grant.response.token_type = "Bearer"
           /\ grant.response.keys = {"token_type", "id_token", "access_token",
                                      "refresh_token", "expires_in"}
           /\ grant.response.id_token.kind = "id"
           /\ grant.response.access_token.kind = "access"
           /\ grant.response.refresh_token.kind = "refresh"
           /\ grant.response.expires_in = ACCESS_TOKEN_EXPIRES_IN

\* The user was found through the stored code (the ``user`` passed is gone
\* from storage), the caller asked for another expires_in and got 1200.
C12_Witness ==
    /\ grant.phase = "responded"
    /\ grant.request.grant_type = "authorization_code"
    /\ grant.request.code \in CodeValues
    /\ codes[grant.request.code].state = "stored"
    /\ grant.request.user.kind = "detached"
    /\ grant.request.user.id \notin users
    /\ grant.request.expires_in # <<>>
    /\ grant.request.expires_in[1] # ACCESS_TOKEN_EXPIRES_IN
    /\ grant.response.kind = "token"
    /\ grant.response.id_token.sub = codes[grant.request.code].user
    /\ grant.response.expires_in = ACCESS_TOKEN_EXPIRES_IN

\* The step of GenerateToken that takes the call from entry to its return or
\* exception; storage is read as it is at the call.
GrantStep == grant.phase = "received" /\ grant'.phase = "responded"

\* No AuthorizationCode row is stored for the code value the request carries.
NoStoredCode(rows, code) == code \notin DOMAIN rows \/ rows[code].state # "stored"

\* C13: an authorization_code grant whose code is absent or matches no stored
\* code ends with an OIDCError (invalid grant), with no other kind of error,
\* and mints no token.
C13_BadCodeRejected ==
    [][ ( /\ GrantStep
          /\ grant.request.grant_type = "authorization_code"
          /\ NoStoredCode(codes, grant.request.code) )
            => /\ grant'.response.kind = "error"
               /\ grant'.response.error = "OIDCError"
               /\ grant'.minted = <<>> ]_vars

\* C14: an implicit grant with no principal (user=None) fails with the
\* OIDCError "user not authenticated", with no other error before that
\* check, and mints no token.
C14_NoPrincipalOIDCError ==
    ( /\ grant.phase = "responded"
      /\ grant.request.grant_type = "implicit"
      /\ grant.request.user = UserNone )
        => /\ grant.response.kind = "error"
           /\ grant.response.error = "OIDCError"
           /\ grant.response.message = "user not authenticated"
           /\ grant.minted = <<>>

\* C15: a refresh_token grant for the user its token names in sub, whose id
\* is no longer in storage, fails with an OIDCError (invalid grant) and mints
\* no token.
C15_MissingSubRejected ==
    [][ ( /\ GrantStep
          /\ grant.request.grant_type = "refresh_token"
          /\ grant.request.refresh_token_claims.present
          /\ grant.request.user.kind = "detached"
          /\ grant.request.user.id = IntOf(grant.request.refresh_token_claims.sub)
          /\ grant.request.user.id \notin users )
            => /\ grant'.response.kind = "error"
               /\ grant'.response.error = "OIDCError"
               /\ grant'.minted = <<>> ]_vars

\* C16: a refresh_token grant by the token's own user, supplying a refresh
\* token whose UserRefreshToken row is expired or absent, fails with an
\* OIDCError (invalid grant); no token is minted or returned.
C16_StaleRefreshRejected ==
    [][ ( /\ GrantStep
          /\ grant.request.grant_type = "refresh_token"
          /\ grant.request.refresh_token.jti \in RefreshJtis
          /\ user_refresh_tokens[grant.request.refresh_token.jti] # "valid"
          /\ grant.request.user = AttachedUser(grant.request.refresh_token.sub) )
            => /\ grant'.response.kind = "error"
               /\ grant'.response.error = "OIDCError"
               /\ grant'.minted = <<>> ]_vars

-----------------------------------------------------------------------------
(* More claims about RedirectMixin (SpecRedirect) *)

\* The step of LoginRequest; config and clientTable are read as they are
\* when the request runs.
LoginStep == reqCount' = reqCount + 1

SlashesOnly(s) == \A i \in DOMAIN s : s[i] = Slash

\* url is stem followed by zero or more "/".
ExtendsBySlashes(url, stem) ==
    /\ Len(url) >= Len(stem)
    /\ SubSeq(url, 1, Len(stem)) = stem
    /\ SlashesOnly(SubSeq(url, Len(stem) + 1, Len(url)))

\* The two URLs differ in their trailing slashes at most.
SameUpToSlashes(url, other) ==
    \E k \in 0..Len(other) :
        /\ ExtendsBySlashes(other, SubSeq(other, 1, k))
        /\ ExtendsBySlashes(url, SubSeq(other, 1, k))

\* C17: normalization removes exactly one trailing "/" from the candidate and
\* from every allowed URL, so a request is accepted iff its URL less one
\* trailing "/" equals an allowed URL less one trailing "/"; a URL two or
\* more trailing slashes away from an allowed URL is rejected.
C17_StripsExactlyOne ==
    [][ LoginStep =>
          ( login'.outcome = "ok" <=>
              RstripOne(login'.url) \in
                  {RstripOne(a) : a \in Range(AllowedList(config, clientTable))} )
      ]_vars

\* C17 amended: normalization removes every trailing "/": no member of the
\* allowed set ends in "/", a request is accepted iff its URL is a member
\* followed by any number of "/", and a URL that differs from a client's
\* redirect URI in trailing slashes only, however many, is accepted.
C17_StripsEveryTrailingSlash ==
    login.outcome # "none" =>
        /\ \A member \in login.allowed :
               member = <<>> \/ member[Len(member)] # Slash
        /\ (login.outcome = "ok") <=>
               (\E member \in login.allowed : ExtendsBySlashes(login.url, member))
        /\ \A c \in ClientIds :
               ( /\ login.clients[c].registered
                 /\ \E uri \in Range(RedirectUris(login.clients[c])) :
                        SameUpToSlashes(login.url, uri) )
               => login.outcome = "ok"

\* https://good.com// is accepted for the client URI https://good.com, and
\* for the client URI https://good.com/ too.
C17_Witness ==
    /\ login.url = GoodSlashSlash
    /\ login.outcome = "ok"
    /\ \E c \in ClientIds :
          /\ login.clients[c].registered
          /\ Range(RedirectUris(login.clients[c])) \cap {Good, GoodSlash} # {}

\* C18: the allowed set a request computes is exactly the normalized union
\* of the LOGIN_REDIRECT_WHITELIST the operator configured, BASE_URL and its
\* origin, the fence login callback iff a fence provider is configured, and
\* every redirect URI of every client registered when the request runs.
C18_AllowedIsExactUnion ==
    [][ LoginStep =>
          /\ login'.allowed =
                {Rstrip(url) : url \in Range(AllowedList(operatorCfg, clientTable))}
          /\ "fence" \notin operatorCfg.OPENID_CONNECT
                => Rstrip(operatorCfg.BASE_URL) \o FenceLoginPath \notin login'.allowed
      ]_vars

\* C19: computing allowed_login_redirects leaves the configured
\* LOGIN_REDIRECT_WHITELIST as it was: its length does not grow and no
\* client URI is written into it.
C19_WhitelistUnchanged ==
    [][ LoginStep =>
          /\ config'.LOGIN_REDIRECT_WHITELIST = config.LOGIN_REDIRECT_WHITELIST
          /\ Len(config'.LOGIN_REDIRECT_WHITELIST) <= Len(config.LOGIN_REDIRECT_WHITELIST)
          /\ \A uri \in Range(ClientUrisFrom(clientTable, 1)) :
                uri \in Range(config'.LOGIN_REDIRECT_WHITELIST)
                    => uri \in Range(config.LOGIN_REDIRECT_WHITELIST)
      ]_vars

-----------------------------------------------------------------------------
(* More claims about Client (SpecClient) *)

\* C20: check_client_type(t) is truthy exactly when t is the client's
\* client_type, for is_confidential True, False and None alike; so
\* check_client_type(client.client_type) holds for every client.
C20_CheckAgreesWithClientType ==
    call.op = "check_client_type" =>
        ( Truthy(call.result) <=> call.method = client_type(client) )

====
